---- MODULE Spec2Model ----
(***************************************************************************)
(* Model of src/a.py: the Streamlit meme generator.  One script run of     *)
(* main() per click of 'Run Agent'; the handler calls                      *)
(* run_agent_with_debug through asyncio.run and renders what comes back.   *)
(*                                                                         *)
(* The external collaborators (ChatOpenAI, Browser, Agent, agent.run,      *)
(* history.final_result, browser.close, status_box.info) are modelled by   *)
(* their possible outcomes: each may complete or raise an Exception, and   *)
(* the awaited agent.run may also be cancelled (a BaseException).  The     *)
(* rendering calls of the handler itself (st.error, st.success, ...) are   *)
(* taken to complete.                                                      *)
(*                                                                         *)
(* Text that the code inspects character by character (the agent's result, *)
(* searched with a regular expression) is a sequence of one-character      *)
(* strings.  Temperatures are in tenths (0.7 is 7).                        *)
(***************************************************************************)
EXTENDS Integers, Sequences, FiniteSets, TLC

VARIABLES
    pc,           \* position of the script run / the handler / the coroutine
    clicks,       \* number of clicks of 'Run Agent' so far
    api_key,      \* main: st.text_input("OpenRouter Key")
    model,        \* main: st.selectbox("Model", ...)
    headless,     \* main: st.checkbox("Headless Mode")
    query,        \* main: st.text_input("Meme Prompt")
    model_choice, \* run_agent_with_debug: parameter model_choice
    cfg,          \* run_agent_with_debug: locals model, temp
    llm,          \* run_agent_with_debug: local llm
    task,         \* run_agent_with_debug: local task
    browser,      \* the Browser object: "none", "open" or "closed"
    agent,        \* run_agent_with_debug: local agent
    runCalls,     \* calls of agent.run() in this script run
    runState,     \* "idle", "called", "returned", "raised", "cancelled"
    history,      \* what history.final_result() yields once agent.run returned
    final_result, \* run_agent_with_debug: local final_result
    errors,       \* run_agent_with_debug: local errors
    closeCalls,   \* calls of browser.close() in this script run
    exc,          \* the exception in flight
    raised,       \* <<call, message>> of each Exception raised in this script run
    ret,          \* main: (result, errors) once asyncio.run returned
    stdout,       \* sys.stdout: "sys" or "StringIO"
    f,            \* main: the io.StringIO buffer
    ui,           \* what the script run has rendered, in order
    propagated    \* what left main(): "none", "Exception", "BaseException"

vars == <<pc, clicks, api_key, model, headless, query, model_choice, cfg, llm,
          task, browser, agent, runCalls, runState, history, final_result,
          errors, closeCalls, exc, raised, ret, stdout, f, ui, propagated>>

\* Number of clicks of 'Run Agent' explored.
MaxClicks == 2

\* Python's None, told apart from every text (texts hold one-character strings).
None == <<"None">>

\* A local of run_agent_with_debug that holds an object and is not bound yet.
Unbound == [unbound |-> TRUE]

NoExc == [kind |-> "none", msg |-> ""]

-----------------------------------------------------------------------------
\* The widgets of main()

ModelOptions == {"Deepseek", "Claude", "OpenAI"}

DefaultQuery == "Programmers working on friday"

ApiKeys == {"", "sk-or-key"}

Queries == {DefaultQuery, "cats"}

-----------------------------------------------------------------------------
\* 2. Configure Model

SelectModel_ElifDropped(choice) ==
    IF choice = "Claude"
    THEN [model |-> "meta-llama/llama-3.3-70b-instruct:free", temp |-> 7]
    ELSE [model |-> "openai/gpt-oss-120b:free", temp |-> 1]

SelectModel(choice) ==
    IF choice = "Claude"
    THEN [model |-> "meta-llama/llama-3.3-70b-instruct:free", temp |-> 7]
    ELSE IF choice = "Deepseek"
    THEN [model |-> "nex-agi/deepseek-v3.1-nex-n1:free", temp |-> 3]
    ELSE [model |-> "openai/gpt-oss-120b:free", temp |-> 1]

ChatOpenAI(c, key) ==
    [base_url |-> "https://openrouter.ai/api/v1", model |-> c.model,
     api_key |-> key, temperature |-> c.temp]

-----------------------------------------------------------------------------
\* 3. Task: adjacent string literals, of which only the first is an f-string.
\* A literal is a sequence of fragments; "{query}" is a replacement field in
\* an f-string and plain text in any other literal.

Placeholder == "{query}"

TaskLiterals == <<
    [fstring |-> TRUE,
     parts |-> <<"Generate a meme about: '", Placeholder, "'.\n">>],
    [fstring |-> FALSE, parts |-> <<"STRICT STEPS:\n">>],
    [fstring |-> FALSE,
     parts |-> <<"1. GO TO 'https://imgflip.com/memetemplates'.\n">>],
    [fstring |-> FALSE,
     parts |-> <<"2. TYPE a simple keyword related to '", Placeholder,
                 "' into the search box.\n">>],
    [fstring |-> FALSE,
     parts |-> <<"3. CLICK on the first matching template image.\n">>],
    [fstring |-> FALSE,
     parts |-> <<"4. WAIT for the 'Caption this Meme' button or text boxes to load.\n">>],
    [fstring |-> FALSE,
     parts |-> <<"5. CLICK inside the Top Text box and TYPE a setup.\n">>],
    [fstring |-> FALSE,
     parts |-> <<"6. CLICK inside the Bottom Text box and TYPE a punchline.\n">>],
    [fstring |-> FALSE, parts |-> <<"7. CLICK 'Generate Meme'.\n">>],
    [fstring |-> FALSE,
     parts |-> <<"8. EXTRACT and RETURN the image URL starting with 'https://i.imgflip.com'.\n">> ] >>

\* The value of one literal: an f-string has its replacement fields evaluated.
LiteralValue(lit, q) ==
    IF lit.fstring
    THEN [i \in DOMAIN lit.parts |->
             IF lit.parts[i] = Placeholder THEN q ELSE lit.parts[i]]
    ELSE lit.parts

RECURSIVE Concat(_)
Concat(ss) == IF ss = <<>> THEN <<>> ELSE Head(ss) \o Concat(Tail(ss))

FormatTask(q) ==
    Concat([i \in DOMAIN TaskLiterals |-> LiteralValue(TaskLiterals[i], q)])

-----------------------------------------------------------------------------
\* re.search(r'(https://i\.imgflip\.com/\w+\.jpg)', result)

UrlPrefix == <<"h","t","t","p","s",":","/","/","i",".","i","m","g","f","l",
               "i","p",".","c","o","m","/">>

JpgSuffix == <<".","j","p","g">>

\* The word characters (\w) among the characters the model's texts use.
WordChars == {"a","b","c","d","e","f","g","h","i","j","l","m","n","o","p",
              "s","t","x","1","2","_"}

StartsWithAt(s, i, lit) ==
    /\ i + Len(lit) - 1 <= Len(s)
    /\ SubSeq(s, i, i + Len(lit) - 1) = lit

\* Length of the run of word characters of s that starts at position i.
RECURSIVE WordRun(_, _)
WordRun(s, i) ==
    IF i <= Len(s) /\ s[i] \in WordChars THEN 1 + WordRun(s, i + 1) ELSE 0

SetMax(S) == CHOOSE x \in S : \A y \in S : y <= x

SetMin(S) == CHOOSE x \in S : \A y \in S : x <= y

\* The repetitions that \w+ may take: one up to the whole run.
WordRepeats_Star(n) == 0..n

WordRepeats(n) == 1..n

\* The match of the pattern anchored at position i, or None: the literal
\* prefix, then \w+ greedy with backtracking, then the literal '.jpg'.
MatchAt(s, i) ==
    IF ~StartsWithAt(s, i, UrlPrefix) THEN None
    ELSE LET b  == i + Len(UrlPrefix)
             ks == {k \in WordRepeats(WordRun(s, b)) :
                       StartsWithAt(s, b + k, JpgSuffix)}
         IN  IF ks = {} THEN None
             ELSE SubSeq(s, i, b + SetMax(ks) + Len(JpgSuffix) - 1)

\* group(1) of the leftmost match, or None when nothing matches.
re_search(s) ==
    LET starts == {i \in 1..Len(s) : MatchAt(s, i) # None}
    IN  IF starts = {} THEN None ELSE MatchAt(s, SetMin(starts))

\* Python truth value of an optional text / of a list.
Truthy(x) == x # None /\ x # <<>>

-----------------------------------------------------------------------------
\* What the agent may hand back

HttpPrefix == <<"h","t","t","p",":","/","/","i",".","i","m","g","f","l",
                "i","p",".","c","o","m","/">>

SecondUrl == <<" ">> \o UrlPrefix \o <<"b","2",".","j","p","g">>

ResultPre == {<<>>, <<"s","e","e"," ">>}

ResultHost == {UrlPrefix, HttpPrefix}

ResultName == {<<>>, <<"a">>, <<"a","_","1">>, <<"a","-","b">>}

ResultExt == {<<".","j","p","g">>, <<".","p","n","g">>, <<"x","j","p","g">>,
              <<".","j","p","g","x">>}

ResultPost == {<<>>, SecondUrl}

AgentResults ==
    {p \o h \o n \o e \o t :
        p \in ResultPre, h \in ResultHost, n \in ResultName,
        e \in ResultExt, t \in ResultPost}
    \cup {<<>>, <<"d","o","n","e">>, None}

\* str(e) of what agent.run() may raise.
RunErrors == {"Timeout 30000ms exceeded", ""}

\* What the agent prints while it runs.
AgentOutput == {<<>>, <<"INFO [agent] step 1">>}

-----------------------------------------------------------------------------
\* Rendered elements

Elem(kind, arg) == [kind |-> kind, arg |-> arg]

Shown(kind) == \E i \in DOMAIN ui : ui[i].kind = kind

Count(kind) == Cardinality({i \in DOMAIN ui : ui[i].kind = kind})

Raise(site, kind, msg) ==
    /\ exc' = [kind |-> kind, msg |-> msg]
    /\ raised' = IF kind = "Exception" THEN raised \cup {<<site, msg>>}
                  ELSE raised
    /\ pc' = "propagate"

-----------------------------------------------------------------------------
Init ==
    /\ pc = "idle"
    /\ clicks = 0
    /\ api_key = ""
    /\ model = "Deepseek"
    /\ headless \in BOOLEAN
    /\ query = DefaultQuery
    /\ model_choice = "-"
    /\ cfg = Unbound
    /\ llm = Unbound
    /\ task = None
    /\ browser = "none"
    /\ agent = Unbound
    /\ runCalls = 0
    /\ runState = "idle"
    /\ history = None
    /\ final_result = None
    /\ errors = <<>>
    /\ closeCalls = 0
    /\ exc = NoExc
    /\ raised = {}
    /\ ret = None
    /\ stdout = "sys"
    /\ f = <<>>
    /\ ui = <<>>
    /\ propagated = "none"

\* The user sets the widgets and clicks 'Run Agent': the script reruns from
\* the top with a fresh page, and st.button returns True.
Click ==
    /\ pc \in {"idle", "stopped", "done"}
    /\ clicks < MaxClicks
    /\ \E k \in ApiKeys, m \in ModelOptions, h \in BOOLEAN, q \in Queries :
          /\ api_key' = k
          /\ model' = m
          /\ headless' = h
          /\ query' = q
    /\ clicks' = clicks + 1
    /\ pc' = "check_key"
    /\ model_choice' = "-"
    /\ cfg' = Unbound
    /\ llm' = Unbound
    /\ task' = None
    /\ browser' = "none"
    /\ agent' = Unbound
    /\ runCalls' = 0
    /\ runState' = "idle"
    /\ history' = None
    /\ final_result' = None
    /\ errors' = <<>>
    /\ closeCalls' = 0
    /\ exc' = NoExc
    /\ raised' = {}
    /\ ret' = None
    /\ stdout' = "sys"
    /\ f' = <<>>
    /\ ui' = <<>>
    /\ propagated' = "none"

KeyMissing_Never(key) == FALSE

\* not api_key
KeyMissing(key) == key = ""

\* if not api_key: st.error("Need API Key"); st.stop()
CheckKey ==
    /\ pc = "check_key"
    /\ IF KeyMissing(api_key)
       THEN /\ ui' = Append(ui, Elem("need_key", <<>>))
            /\ pc' = "stopped"
       ELSE /\ ui' = ui
            /\ pc' = "enter"
    /\ UNCHANGED <<clicks, api_key, model, headless, query, model_choice, cfg,
                   llm, task, browser, agent, runCalls, runState, history,
                   final_result, errors, closeCalls, exc, raised, ret, stdout,
                   f, propagated>>

\* status, log_expander, the spinner, f = io.StringIO(), redirect_stdout(f)
\* entered, and asyncio.run starts run_agent_with_debug(query, model, ...).
EnterRedirect ==
    /\ pc = "enter"
    /\ f' = <<>>
    /\ stdout' = "StringIO"
    /\ model_choice' = model
    /\ pc' = "configure"
    /\ UNCHANGED <<clicks, api_key, model, headless, query, cfg, llm, task,
                   browser, agent, runCalls, runState, history, final_result,
                   errors, closeCalls, exc, raised, ret, ui, propagated>>

ConfigureModel ==
    /\ pc = "configure"
    /\ cfg' = SelectModel(model_choice)
    /\ pc' = "llm"
    /\ UNCHANGED <<clicks, api_key, model, headless, query, model_choice, llm,
                   task, browser, agent, runCalls, runState, history,
                   final_result, errors, closeCalls, exc, raised, ret, stdout,
                   f, ui, propagated>>

BuildLLM ==
    /\ pc = "llm"
    /\ \/ /\ llm' = ChatOpenAI(cfg, api_key)
          /\ pc' = "task"
          /\ UNCHANGED <<exc, raised>>
       \/ /\ Raise("ChatOpenAI", "Exception", "ChatOpenAI failed")
          /\ UNCHANGED llm
    /\ UNCHANGED <<clicks, api_key, model, headless, query, model_choice, cfg,
                   task, browser, agent, runCalls, runState, history,
                   final_result, errors, closeCalls, ret, stdout, f, ui,
                   propagated>>

BuildTask ==
    /\ pc = "task"
    /\ task' = FormatTask(query)
    /\ pc' = "browser"
    /\ UNCHANGED <<clicks, api_key, model, headless, query, model_choice, cfg,
                   llm, browser, agent, runCalls, runState, history,
                   final_result, errors, closeCalls, exc, raised, ret, stdout,
                   f, ui, propagated>>

BuildBrowser ==
    /\ pc = "browser"
    /\ \/ /\ browser' = "open"
          /\ pc' = "agent"
          /\ UNCHANGED <<exc, raised>>
       \/ /\ Raise("Browser", "Exception", "Browser failed")
          /\ UNCHANGED browser
    /\ UNCHANGED <<clicks, api_key, model, headless, query, model_choice, cfg,
                   llm, task, agent, runCalls, runState, history, final_result,
                   errors, closeCalls, ret, stdout, f, ui, propagated>>

BuildAgent ==
    /\ pc = "agent"
    /\ \/ /\ agent' = [task |-> task, llm |-> llm, use_vision |-> FALSE]
          /\ pc' = "status"
          /\ UNCHANGED <<exc, raised>>
       \/ /\ Raise("Agent", "Exception", "Agent failed")
          /\ UNCHANGED agent
    /\ UNCHANGED <<clicks, api_key, model, headless, query, model_choice, cfg,
                   llm, task, browser, runCalls, runState, history,
                   final_result, errors, closeCalls, ret, stdout, f, ui,
                   propagated>>

\* status_box.info(...); final_result = None; errors = []
StatusInfo ==
    /\ pc = "status"
    /\ \/ /\ ui' = Append(ui, Elem("info", <<"Launching Browser">>))
          /\ final_result' = None
          /\ errors' = <<>>
          /\ pc' = "run"
          /\ UNCHANGED <<exc, raised>>
       \/ /\ Raise("status_box.info", "Exception", "info failed")
          /\ UNCHANGED <<ui, final_result, errors>>
    /\ UNCHANGED <<clicks, api_key, model, headless, query, model_choice, cfg,
                   llm, task, browser, agent, runCalls, runState, history,
                   closeCalls, ret, stdout, f, propagated>>

PcAfterRunCall_NotAwaited == "finally"

\* history = await agent.run(): the coroutine is suspended until the agent
\* returns, raises or is cancelled.
PcAfterRunCall == "awaiting"

AgentRunCall ==
    /\ pc = "run"
    /\ runCalls' = runCalls + 1
    /\ runState' = "called"
    /\ pc' = PcAfterRunCall
    /\ UNCHANGED <<clicks, api_key, model, headless, query, model_choice, cfg,
                   llm, task, browser, agent, history, final_result, errors,
                   closeCalls, exc, raised, ret, stdout, f, ui, propagated>>

\* What the agent printed goes to the current sys.stdout.
Printed(out) == IF stdout = "StringIO" THEN f \o out ELSE f

AgentRunReturn ==
    /\ pc = "awaiting"
    /\ \E r \in AgentResults : history' = r
    /\ \E out \in AgentOutput : f' = Printed(out)
    /\ runState' = "returned"
    /\ pc' = "final_result"
    /\ UNCHANGED <<clicks, api_key, model, headless, query, model_choice, cfg,
                   llm, task, browser, agent, runCalls, final_result, errors,
                   closeCalls, exc, raised, ret, stdout, ui, propagated>>

ExceptHandler_Swallow(errs, msg) == errs

\* except Exception as e: errors.append(str(e))
ExceptHandler(errs, msg) == Append(errs, msg)

AgentRunRaise ==
    /\ pc = "awaiting"
    /\ \E msg \in RunErrors :
          /\ errors' = ExceptHandler(errors, msg)
          /\ raised' = raised \cup {<<"agent.run", msg>>}
    /\ \E out \in AgentOutput : f' = Printed(out)
    /\ runState' = "raised"
    /\ pc' = "finally"
    /\ UNCHANGED <<clicks, api_key, model, headless, query, model_choice, cfg,
                   llm, task, browser, agent, runCalls, history, final_result,
                   closeCalls, exc, ret, stdout, ui, propagated>>

\* asyncio.CancelledError is no Exception: the except clause lets it pass and
\* the finally clause runs with it in flight.
AgentRunCancel ==
    /\ pc = "awaiting"
    /\ exc' = [kind |-> "BaseException", msg |-> "CancelledError"]
    /\ \E out \in AgentOutput : f' = Printed(out)
    /\ runState' = "cancelled"
    /\ pc' = "finally"
    /\ UNCHANGED <<clicks, api_key, model, headless, query, model_choice, cfg,
                   llm, task, browser, agent, runCalls, history, final_result,
                   errors, closeCalls, raised, ret, stdout, ui, propagated>>

\* final_result = history.final_result()
FinalResult ==
    /\ pc = "final_result"
    /\ \/ /\ final_result' = history
          /\ UNCHANGED <<errors, raised>>
       \/ /\ errors' = ExceptHandler(errors, "final_result failed")
          /\ raised' = raised \cup {<<"final_result", "final_result failed">>}
          /\ UNCHANGED final_result
    /\ pc' = "finally"
    /\ UNCHANGED <<clicks, api_key, model, headless, query, model_choice, cfg,
                   llm, task, browser, agent, runCalls, runState, history,
                   closeCalls, exc, ret, stdout, f, ui, propagated>>

\* finally: await browser.close()
Finally ==
    /\ pc = "finally"
    /\ closeCalls' = closeCalls + 1
    /\ \/ /\ browser' = "closed"
          /\ pc' = IF exc = NoExc THEN "return" ELSE "propagate"
          /\ UNCHANGED <<exc, raised>>
       \/ /\ Raise("browser.close", "Exception", "close failed")
          /\ UNCHANGED browser
    /\ UNCHANGED <<clicks, api_key, model, headless, query, model_choice, cfg,
                   llm, task, agent, runCalls, runState, history, final_result,
                   errors, ret, stdout, f, ui, propagated>>

\* return final_result, errors; asyncio.run returns; the with block of
\* redirect_stdout exits and puts sys.stdout back.
Return ==
    /\ pc = "return"
    /\ ret' = <<final_result, errors>>
    /\ stdout' = "sys"
    /\ pc' = "logs"
    /\ UNCHANGED <<clicks, api_key, model, headless, query, model_choice, cfg,
                   llm, task, browser, agent, runCalls, runState, history,
                   final_result, errors, closeCalls, exc, raised, f, ui,
                   propagated>>

Catches_Nothing(kind) == FALSE

\* except Exception as e:
Catches(kind) == kind = "Exception"

\* The exception leaves run_agent_with_debug and asyncio.run; the with block
\* of redirect_stdout exits and puts sys.stdout back; the handler's except
\* clause shows it, or it leaves main().
Propagate ==
    /\ pc = "propagate"
    /\ stdout' = "sys"
    /\ IF Catches(exc.kind)
       THEN /\ ui' = Append(ui, Elem("critical", <<exc.msg>>))
            /\ UNCHANGED propagated
       ELSE /\ propagated' = exc.kind
            /\ UNCHANGED ui
    /\ exc' = NoExc
    /\ pc' = "done"
    /\ UNCHANGED <<clicks, api_key, model, headless, query, model_choice, cfg,
                   llm, task, browser, agent, runCalls, runState, history,
                   final_result, errors, closeCalls, raised, ret, f>>

\* logs = f.getvalue(); log_expander.code(logs)
ShowLogs ==
    /\ pc = "logs"
    /\ ui' = Append(ui, Elem("logs", f))
    /\ pc' = "errors"
    /\ UNCHANGED <<clicks, api_key, model, headless, query, model_choice, cfg,
                   llm, task, browser, agent, runCalls, runState, history,
                   final_result, errors, closeCalls, exc, raised, ret, stdout,
                   f, propagated>>

\* if errors: st.error("The Agent crashed!"); st.json(errors)
RenderErrors ==
    /\ pc = "errors"
    /\ ui' = IF Truthy(ret[2])
             THEN ui \o <<Elem("crash", <<>>), Elem("json", ret[2])>>
             ELSE ui
    /\ pc' = "result"
    /\ UNCHANGED <<clicks, api_key, model, headless, query, model_choice, cfg,
                   llm, task, browser, agent, runCalls, runState, history,
                   final_result, errors, closeCalls, exc, raised, ret, stdout,
                   f, propagated>>

\* if result: success, markdown, image or warning; else: warning
RenderResult ==
    /\ pc = "result"
    /\ ui' = IF Truthy(ret[1])
             THEN LET url_match == re_search(ret[1])
                  IN  ui \o <<Elem("success", <<>>), Elem("markdown", ret[1]),
                              IF url_match # None
                              THEN Elem("image", url_match)
                              ELSE Elem("no_image", <<>>)>>
             ELSE Append(ui, Elem("no_result", <<>>))
    /\ pc' = "done"
    /\ UNCHANGED <<clicks, api_key, model, headless, query, model_choice, cfg,
                   llm, task, browser, agent, runCalls, runState, history,
                   final_result, errors, closeCalls, exc, raised, ret, stdout,
                   f, propagated>>

Next ==
    \/ Click
    \/ CheckKey
    \/ EnterRedirect
    \/ ConfigureModel
    \/ BuildLLM
    \/ BuildTask
    \/ BuildBrowser
    \/ BuildAgent
    \/ StatusInfo
    \/ AgentRunCall
    \/ AgentRunReturn
    \/ AgentRunRaise
    \/ AgentRunCancel
    \/ FinalResult
    \/ Finally
    \/ Return
    \/ Propagate
    \/ ShowLogs
    \/ RenderErrors
    \/ RenderResult

Spec == Init /\ [][Next]_vars

-----------------------------------------------------------------------------
\* Vocabulary of the properties

\* The calls that raised an Exception in this script run.
RaisedSites == {r[1] : r \in raised}

\* The calls of run_agent_with_debug made before agent.run().
SetupSites == {"ChatOpenAI", "Browser", "Agent", "status_box.info"}

\* The calls whose Exception leaves run_agent_with_debug.
EscapingSites == SetupSites \cup {"browser.close"}

\* The calls whose Exception run_agent_with_debug catches itself.
CaughtSites == {"agent.run", "final_result"}

\* Result, warning and crash elements of a run.
ResultKinds == {"success", "markdown", "image", "no_image", "no_result",
                "crash", "json"}

\* Success, warning and error messages of a run.
MessageKinds == {"success", "no_image", "no_result", "crash", "critical"}

ResultShown == \E i \in DOMAIN ui : ui[i].kind \in ResultKinds

MessageShown == \E i \in DOMAIN ui : ui[i].kind \in MessageKinds

\* run_agent_with_debug has been left, by return or by an exception.
FunctionLeft == pc \in {"propagate", "logs", "errors", "result", "done"}

\* t is a text of the form https://i.imgflip.com/<word characters>.jpg
IsImgflipJpg(t) ==
    /\ Len(t) >= Len(UrlPrefix) + 1 + Len(JpgSuffix)
    /\ SubSeq(t, 1, Len(UrlPrefix)) = UrlPrefix
    /\ SubSeq(t, Len(t) - Len(JpgSuffix) + 1, Len(t)) = JpgSuffix
    /\ \A k \in (Len(UrlPrefix) + 1)..(Len(t) - Len(JpgSuffix)) :
          t[k] \in WordChars

\* The <<first, last>> positions of the substrings of s of that form.
UrlMatches(s) ==
    {m \in (1..Len(s)) \X (1..Len(s)) :
        m[1] <= m[2] /\ IsImgflipJpg(SubSeq(s, m[1], m[2]))}

ImageArgs == {ui[i].arg : i \in {j \in DOMAIN ui : ui[j].kind = "image"}}

-----------------------------------------------------------------------------
\* C1 (as stated): every click with an API key calls agent.run exactly once,
\* and a success, warning or error message is rendered only after that call
\* has returned or raised.
C1_ExactlyOneRunPerClick ==
    /\ runCalls <= 1
    /\ MessageShown /\ api_key # "" => runState \in {"returned", "raised"}
    /\ pc = "done" /\ api_key # "" => runCalls = 1

\* C1 (amended): per click with an API key the task and the agent are built
\* before agent.run is called, agent.run is called at most once and exactly
\* once when the setup calls complete, a result, warning or crash element is
\* rendered only after agent.run has returned or raised and
\* run_agent_with_debug has returned, each at most once; when a setup call
\* raises, agent.run is not called and no such element is rendered.
C1_RunThenRender ==
    /\ runCalls <= 1
    /\ runCalls = 1 =>
          /\ task = FormatTask(query)
          /\ agent # Unbound
          /\ agent.task = task
          /\ browser # "none"
    /\ ResultShown =>
          /\ runCalls = 1
          /\ runState \in {"returned", "raised"}
          /\ ret # None
    /\ \A k \in ResultKinds : Count(k) <= 1
    /\ pc = "done" /\ api_key # "" /\ RaisedSites \cap SetupSites = {}
          => runCalls = 1
    /\ RaisedSites \cap SetupSites # {} => runCalls = 0 /\ ~ResultShown

C1_Witness ==
    /\ pc = "done"
    /\ runCalls = 1
    /\ Shown("success")
    /\ Shown("image")

\* C2: the LLM is configured from model_choice alone by the table Claude ->
\* llama at 0.7, Deepseek -> deepseek at 0.3, anything else -> gpt-oss at 0.1;
\* main() passes only the three options of the select box; the selection is
\* defined for every value.
OtherChoices == {"OpenAI", "claude", "Gemini", ""}

C2_ModelTable ==
    /\ model_choice # "-" => model_choice \in {"Deepseek", "Claude", "OpenAI"}
    /\ llm # Unbound =>
          /\ model_choice = "Claude" =>
                /\ llm.model = "meta-llama/llama-3.3-70b-instruct:free"
                /\ llm.temperature = 7
          /\ model_choice = "Deepseek" =>
                /\ llm.model = "nex-agi/deepseek-v3.1-nex-n1:free"
                /\ llm.temperature = 3
          /\ model_choice = "OpenAI" =>
                /\ llm.model = "openai/gpt-oss-120b:free"
                /\ llm.temperature = 1
    /\ \A c \in OtherChoices :
          SelectModel(c) = [model |-> "openai/gpt-oss-120b:free", temp |-> 1]

C2_Witness ==
    /\ llm # Unbound
    /\ model_choice = "Deepseek"
    /\ llm.temperature = 3

\* C3: the returned pair has at most one error; without an Exception from
\* agent.run() or final_result() the errors are empty and the result is the
\* agent's; with one, errors is exactly its message and the result is None;
\* so a non-empty errors list comes with a None result.
C3_ReturnedPair ==
    ret # None =>
       /\ Len(ret[2]) <= 1
       /\ RaisedSites \cap CaughtSites = {} =>
             /\ ret[2] = <<>>
             /\ ret[1] = history
       /\ \A r \in raised : r[1] \in CaughtSites =>
             /\ ret[2] = <<r[2]>>
             /\ ret[1] = None
       /\ ret[2] # <<>> => ret[1] = None

C3_Witness ==
    /\ ret # None
    /\ "agent.run" \in RaisedSites
    /\ Len(ret[2]) = 1

\* C4 (as stated): once the agent call has returned to the handler, a
\* non-empty result shows the success message and not the crash error; a run
\* whose agent raised shows the crash error and nothing else, so not the
\* 'returned no result' warning; success and crash are never both shown.
C4_OneOutcome ==
    pc = "done" /\ ret # None =>
       /\ Truthy(ret[1]) => Shown("success") /\ ~Shown("crash")
       /\ RaisedSites \cap CaughtSites # {} =>
             /\ Shown("crash")
             /\ ~Shown("no_result")
             /\ ~Shown("success")
       /\ ~(Shown("success") /\ Shown("crash"))

\* C5 (as stated): the task holds the query in the 'Generate a meme about'
\* line and in step 2, and no unsubstituted '{query}'.
C5_QuerySubstituted ==
    task # None =>
       /\ \A i \in DOMAIN task : task[i] # Placeholder
       /\ \E i \in 1..(Len(task) - 1) :
             /\ task[i] = "Generate a meme about: '"
             /\ task[i + 1] = query
       /\ \E i \in 1..(Len(task) - 1) :
             /\ task[i] = "2. TYPE a simple keyword related to '"
             /\ task[i + 1] = query

\* C6: for a non-empty result an image is shown iff the result has a
\* substring https://i.imgflip.com/<word characters>.jpg, and it is the
\* leftmost one; otherwise the 'No image link' warning is shown; for an
\* empty or None result only the 'returned no result' warning is shown.
C6_ImageIffMatch ==
    pc = "done" /\ ret # None =>
       IF Truthy(ret[1])
       THEN LET ms == UrlMatches(ret[1])
            IN  /\ Shown("image") <=> ms # {}
                /\ Shown("no_image") <=> ms = {}
                /\ ~Shown("no_result")
                /\ Count("image") <= 1
                /\ \A a \in ImageArgs :
                      \E m \in ms :
                         /\ a = SubSeq(ret[1], m[1], m[2])
                         /\ \A n \in ms : m[1] <= n[1]
       ELSE /\ ~Shown("image")
            /\ ~Shown("no_image")
            /\ Shown("no_result")

C6_Witness ==
    /\ pc = "done"
    /\ Shown("image")
    /\ Cardinality(UrlMatches(ret[1])) = 2

\* C7: a click with an empty API key shows 'Need API Key' and stops: no LLM,
\* browser or agent, no agent.run, no result, warning or crash element.
C7_NoKeyStops ==
    pc # "idle" /\ api_key = "" =>
       /\ pc \in {"check_key", "stopped"}
       /\ pc = "stopped" => ui = <<Elem("need_key", <<>>)>>
       /\ llm = Unbound
       /\ browser = "none"
       /\ agent = Unbound
       /\ runCalls = 0
       /\ ~ResultShown
       /\ ~Shown("critical")

C7_Witness ==
    /\ pc = "stopped"
    /\ api_key = ""
    /\ Shown("need_key")

\* C8 (as stated): once run_agent_with_debug is left, every browser it
\* created has had close() called exactly once.
C8_BrowserClosed ==
    FunctionLeft /\ browser # "none" => closeCalls = 1

C10_LogsBeforeMessages ==
    /\ runCalls >= 1 =>
          \A i \in DOMAIN ui :
             ui[i].kind \in MessageKinds =>
                \E j \in 1..(i - 1) : ui[j].kind = "logs"
    /\ pc = "done" => stdout = "sys"

====
